---- MODULE Spec2Model ----
(***************************************************************************)
(* Model of the WIDE landing page: the frame preloader hook (usePreload),  *)
(* the ScrollVideo component with its scroll-to-frame mapper, and the      *)
(* IntroOverlay, NavBubble and ProjectModal components.                    *)
(* One action is one browser task: an event handler together with  *)
(* the promise reactions (microtasks) it makes runnable, which the host   *)
(* runs to completion before the next task and before React renders the   *)
(* batched state updates.  The published state (images, progress,         *)
(* isLoaded) is therefore observed between actions.                       *)
(***************************************************************************)
EXTENDS Integers, Sequences, FiniteSets, TLC

VARIABLES
    generationRef,  \* generationRef.current
    images,         \* useState: which array object is published (see Images)
    progress,       \* useState: published percentage
    isLoaded,       \* useState: published ready flag
    calls,          \* every preloadFrames invocation made so far, in call order
    \* ScrollVideo
    scrollTrigger,       \* the ScrollTrigger of the main effect and its closure
    scrollProgress,      \* self.progress at the latest onUpdate, in ticks
    currentFrameRef,     \* currentFrameRef.current
    currentServiceIndex, \* useState: index of the service shown, -1 for none
    serviceOpacity,      \* useState: overlay opacity, a rational <<num, den>>
    segmentProgress,     \* useState: progress in the slow segment, a rational
    canvasFrame,         \* index of the frame drawFrame last drew
    updates,             \* number of onUpdate calls so far
    drawCalls,           \* number of drawFrame calls made by onUpdate so far
    isMobile,            \* useState: "null" until detected, then "true"/"false"
    matches,             \* window.matchMedia(MOBILE_QUERY).matches
    drawn,               \* the drawImage calls of the latest task, in order
    \* the other components of the page, one record of refs and state each
    introOverlay,
    navBubble,
    projectModal

preloadVars == <<generationRef, images, progress, isLoaded, calls>>

mapperVars ==
    <<scrollTrigger, scrollProgress, currentFrameRef, currentServiceIndex,
      serviceOpacity, segmentProgress, canvasFrame, updates, drawCalls>>

deviceVars == <<isMobile, matches, drawn>>

pageVars == <<introOverlay, navBubble, projectModal>>

vars ==
    <<generationRef, images, progress, isLoaded, calls,
      scrollTrigger, scrollProgress, currentFrameRef, currentServiceIndex,
      serviceOpacity, segmentProgress, canvasFrame, updates, drawCalls,
      isMobile, matches, drawn, introOverlay, navBubble, projectModal>>

\* setImages stores a reference, not a copy: images = 0 is the initial empty
\* array, images = c is the loadedImages array object of the c-th invocation.
EmptyArray == 0

\* ---------------------------------------------------------------- bounds
MaxCalls == 2          \* preloadFrames invocations in one behaviour
MaxCount == 2          \* frame count of the larger scaled-down frame set
MaxDeployedCalls == 1  \* invocations in the deployed-count model

\* ------------------------------------------------------ program constants
DESKTOP_FRAME_COUNT == 908
MOBILE_FRAME_COUNT == 889
DefaultPadLength == 4

DESKTOP_FRAMES_PATH == "/frames/section-2"
MOBILE_FRAMES_PATH == "/frames_9_16/section-2"

\* An array hole / undefined (a record, so that it compares with images).
Null == [undefined |-> TRUE]

\* The (path, count) pairs ScrollVideo passes to preloadFrames.
DeployedConfigs ==
    { <<DESKTOP_FRAMES_PATH, DESKTOP_FRAME_COUNT>>,
      <<MOBILE_FRAMES_PATH, MOBILE_FRAME_COUNT>> }

\* ------------------------------------------------------------ pure helpers
\* String(n) for n >= 0: the decimal digits, most significant first.
RECURSIVE DecimalDigits(_)
DecimalDigits(n) ==
    IF n < 10 THEN <<n>> ELSE Append(DecimalDigits(n \div 10), n % 10)

\* s.padStart(padLength, '0') on a digit string.
PadStart(s, padLength) ==
    IF Len(s) >= padLength THEN s
    ELSE [k \in 1..(padLength - Len(s)) |-> 0] \o s

\* Variant that numbers the files from 0: String(index).
FrameSrcFromZero(basePath, index, padLength) ==
    [basePath |-> basePath,
     frameNumber |-> PadStart(DecimalDigits(index), padLength)]

\* img.src of the fetch for `index`: `${basePath}/frame_${frameNumber}.webp`.
FrameSrc(basePath, index, padLength) ==
    [basePath |-> basePath,
     frameNumber |-> PadStart(DecimalDigits(index + 1), padLength)]

\* The Image object created by loadImage(index) of the call numbered c.
NewImage(c, basePath, index, padLength) ==
    [call |-> c, index |-> index, src |-> FrameSrc(basePath, index, padLength)]

\* Math.round((loadedCount / count) * 100).  Math.round rounds halves up;
\* the quotient is a tie only when 8 divides count, and the double
\* arithmetic agrees with this integer formula for every count used here.
Percent(loadedCount, count) ==
    (200 * loadedCount + count) \div (2 * count)

\* Variant without the generation check (the hook as it was before
\* cancellation was added): no call ever counts as stale.
IsStaleNever(call) == FALSE

\* generationRef.current !== myGeneration
IsStale(call) == generationRef # call.myGeneration

\* ---------------------------------------------------------------- state
Indices(call) == 0..(call.count - 1)

\* The local state of a fresh invocation: loadedCount = 0, new Array(count),
\* one Image and one pending promise per index.
NewCall(myGeneration, basePath, count, padLength) ==
    [myGeneration |-> myGeneration,
     basePath     |-> basePath,
     count        |-> count,
     padLength    |-> padLength,
     loadedCount  |-> 0,
     loadedImages |-> [k \in 1..count |-> Null],
     event        |-> [k \in 1..count |-> "none"],     \* image event fired
     promise      |-> [k \in 1..count |-> "pending"],  \* loadImage(i) promise
     state        |-> "pending",                       \* preloadFrames promise
     value        |-> Null]                            \* its result or error

\* What a consumer reads through the published reference (index i at
\* position i + 1).
Images == IF images = EmptyArray THEN <<>> ELSE calls[images].loadedImages

published == <<Images, progress, isLoaded>>

\* No ScrollTrigger exists (the main effect has not run or returned early).
NoTrigger == [created |-> FALSE]

\* Nothing has been drawn on the canvas.
Blank == -1

\* ScrollVideo after construction: useRef(0), useState(-1), useState(0),
\* useState(0), no ScrollTrigger, an empty canvas.
ScrollVideoInit ==
    /\ scrollTrigger = NoTrigger
    /\ scrollProgress = 0
    /\ currentFrameRef = 0
    /\ currentServiceIndex = -1
    /\ serviceOpacity = <<0, 1>>
    /\ segmentProgress = <<0, 1>>
    /\ canvasFrame = Blank
    /\ updates = 0
    /\ drawCalls = 0

\* The device class is not detected yet; the window is wider than the
\* mobile breakpoint.
DeviceInit ==
    /\ isMobile = "null"
    /\ matches = "false"
    /\ drawn = <<>>

\* IntroOverlay once mounted: the refs and state of its first render, the
\* timer and the scroll listener of its second effect.  now is the time
\* since mount in milliseconds; textFades, overlayFades and scrollEvents
\* count the gsap.to calls on the text area and on the overlay and the
\* scroll events of the window.
IntroOverlayMounted ==
    [ textFadedRef   |-> FALSE,
      overlayGoneRef |-> FALSE,
      gone           |-> FALSE,
      timer          |-> "pending",
      onScroll       |-> TRUE,
      textTween      |-> "none",
      textStart      |-> 0,
      overlayTween   |-> "none",
      overlayStart   |-> 0,
      now            |-> 0,
      textFades      |-> 0,
      overlayFades   |-> 0,
      scrollEvents   |-> 0 ]

\* NavBubble once mounted: closed, no timeline running, no scroll timer
\* pending, the page not scrolled by the menu; clicked is the section of
\* the child bubble clicked in the latest step, "none" after any other step.
NavBubbleMounted ==
    [ isOpen     |-> FALSE,
      animating  |-> FALSE,
      timelines  |-> <<>>,
      timers     |-> <<>>,
      scrolledTo |-> "none",
      clicked    |-> "none" ]

\* ProjectModal once mounted by Portfolio with no project selected: it
\* renders null, its effect returned before registering a clean-up, the
\* body scrolls.  entry is the state of the entry tweens, tweens the close
\* tweens of handleClose that are running.
ProjectModalMounted ==
    [ mounted  |-> TRUE,
      project  |-> "null",
      overflow |-> "",
      cleanup  |-> FALSE,
      entry    |-> "none",
      tweens   |-> <<>> ]

PageInit ==
    /\ introOverlay = IntroOverlayMounted
    /\ navBubble = NavBubbleMounted
    /\ projectModal = ProjectModalMounted

Init ==
    /\ generationRef = 0
    /\ images = EmptyArray
    /\ progress = 0
    /\ isLoaded = FALSE
    /\ calls = <<>>
    /\ ScrollVideoInit
    /\ DeviceInit
    /\ PageInit

\* Variant that waits for every fetch to settle before rejecting
\* (Promise.allSettled followed by a scan for failures).
PromiseAllWaitsForAll(call) ==
    IF \E k \in 1..call.count : call.promise[k] = "pending" THEN "pending"
    ELSE IF \E k \in 1..call.count : call.promise[k] = "rejected" THEN "rejected"
    ELSE "fulfilled"

\* State of Promise.all over the call's fetch promises.
PromiseAll(call) ==
    IF \E k \in 1..call.count : call.promise[k] = "rejected" THEN "rejected"
    ELSE IF \A k \in 1..call.count : call.promise[k] = "fulfilled" THEN "fulfilled"
    ELSE "pending"

\* Variant whose stale branch returns without calling resolve.
OnloadHandlerStaleReturns(call, c, i) ==
    IF IsStale(call)
    THEN [call EXCEPT !.event[i + 1] = "load"]
    ELSE [call EXCEPT !.event[i + 1] = "load",
                      !.loadedCount = @ + 1,
                      !.loadedImages[i + 1] =
                          NewImage(c, call.basePath, i, call.padLength),
                      !.promise[i + 1] = "fulfilled"]

\* img.onload of index i: the call's local state after the handler.
OnloadHandler(call, c, i) ==
    IF IsStale(call)
    THEN [call EXCEPT !.event[i + 1] = "load",
                      !.promise[i + 1] = "fulfilled"]
    ELSE [call EXCEPT !.event[i + 1] = "load",
                      !.loadedCount = @ + 1,
                      !.loadedImages[i + 1] =
                          NewImage(c, call.basePath, i, call.padLength),
                      !.promise[i + 1] = "fulfilled"]

\* img.onerror of index i: the call's local state after the handler.
OnerrorHandler(call, i) ==
    [call EXCEPT !.event[i + 1] = "error",
                 !.promise[i + 1] = "rejected"]

\* The error thrown for index i: new Error(`Failed to load frame: ${img.src}`).
FrameLoadError(call, i) ==
    [error |-> "Failed to load frame", src |-> FrameSrc(call.basePath, i, call.padLength)]

\* The continuation of `await Promise.all(promises)`: the call's promise
\* settles once, on the first rejection or when every fetch has fulfilled.
Continue(call, reason) ==
    IF call.state # "pending" THEN call
    ELSE IF PromiseAll(call) = "fulfilled"
         THEN [call EXCEPT !.state = "fulfilled", !.value = call.loadedImages]
    ELSE IF PromiseAll(call) = "rejected"
         THEN [call EXCEPT !.state = "rejected", !.value = reason]
    ELSE call

\* Variant that publishes in a finally block: also when the call failed.
PublishesOnSettle(before, after) ==
    /\ before.state = "pending"
    /\ after.state # "pending"
    /\ ~IsStale(after)

\* Variant without the generation check before setImages / setIsLoaded.
PublishesWhenStale(before, after) ==
    /\ before.state = "pending"
    /\ after.state = "fulfilled"

\* Whether the continuation publishes: the try branch ran now and the
\* generation is still current.
Publishes(before, after) ==
    /\ before.state = "pending"
    /\ after.state = "fulfilled"
    /\ ~IsStale(after)

\* ---------------------------------------------------------------- actions
\* Variant without setImages([]) (the reset as it was before cancellation
\* was added).
PreloadFramesKeepsImages(basePath, count, padLength) ==
    /\ generationRef' = generationRef + 1
    /\ isLoaded' = FALSE
    /\ progress' = 0
    /\ images' = images
    /\ calls' = Append(calls, NewCall(generationRef + 1, basePath, count, padLength))

\* Variant with a post-increment: myGeneration = generationRef.current++.
PreloadFramesPostIncrement(basePath, count, padLength) ==
    /\ generationRef' = generationRef + 1
    /\ isLoaded' = FALSE
    /\ progress' = 0
    /\ images' = EmptyArray
    /\ calls' = Append(calls, NewCall(generationRef, basePath, count, padLength))

\* preloadFrames(basePath, count, padLength) up to its await.
PreloadFrames(basePath, count, padLength) ==
    /\ generationRef' = generationRef + 1
    /\ isLoaded' = FALSE
    /\ progress' = 0
    /\ images' = EmptyArray
    /\ calls' = Append(calls, NewCall(generationRef + 1, basePath, count, padLength))

\* The load event of image i of call c, and the reactions it triggers.
OnLoad(c, i) ==
    /\ c \in DOMAIN calls
    /\ i \in Indices(calls[c])
    /\ calls[c].event[i + 1] = "none"
    /\ LET call    == calls[c]
           handled == OnloadHandler(call, c, i)
           after   == Continue(handled, Null)
       IN  /\ calls' = [calls EXCEPT ![c] = after]
           /\ progress' = IF IsStale(call) THEN progress
                          ELSE Percent(handled.loadedCount, call.count)
           /\ IF Publishes(handled, after)
              THEN /\ images' = c
                   /\ isLoaded' = TRUE
              ELSE UNCHANGED <<images, isLoaded>>
    /\ UNCHANGED generationRef

\* The error event of image i of call c, and the reactions it triggers.
OnError(c, i) ==
    /\ c \in DOMAIN calls
    /\ i \in Indices(calls[c])
    /\ calls[c].event[i + 1] = "none"
    /\ LET call    == calls[c]
           handled == OnerrorHandler(call, i)
           after   == Continue(handled, FrameLoadError(call, i))
       IN  /\ calls' = [calls EXCEPT ![c] = after]
           /\ IF Publishes(handled, after)
              THEN /\ images' = c
                   /\ isLoaded' = TRUE
              ELSE UNCHANGED <<images, isLoaded>>
    /\ UNCHANGED <<generationRef, progress>>

\* ----------------------------------------------------------- specification
\* The two frame sets scaled down to a few frames: as in the deployment the
\* desktop set is the larger one and each set has its own path.
SmallConfigs ==
    { <<DESKTOP_FRAMES_PATH, MaxCount>>,
      <<MOBILE_FRAMES_PATH, MaxCount - 1>> }

StartLoad ==
    /\ Len(calls) < MaxCalls
    /\ \E cfg \in SmallConfigs :
           PreloadFrames(cfg[1], cfg[2], DefaultPadLength)
    /\ UNCHANGED <<mapperVars, deviceVars, pageVars>>

ImageLoads ==
    /\ \E c \in DOMAIN calls : \E i \in Indices(calls[c]) : OnLoad(c, i)
    /\ UNCHANGED <<mapperVars, deviceVars, pageVars>>

ImageFails ==
    /\ \E c \in DOMAIN calls : \E i \in Indices(calls[c]) : OnError(c, i)
    /\ UNCHANGED <<mapperVars, deviceVars, pageVars>>

Next ==
    \/ StartLoad
    \/ ImageLoads
    \/ ImageFails

Spec == Init /\ [][Next]_vars

\* ------------------------------------------- the deployed frame counts
\* The same handlers run on the frame sets ScrollVideo loads (889 and 908
\* frames).  Of the possible completion orders this specification follows
\* the one in which the images complete in index order and the network goes
\* quiet once the call has settled; every behaviour of it is a behaviour of
\* the hook.
EventsFired(call) == Cardinality({k \in 1..call.count : call.event[k] # "none"})

StartDeployedLoad ==
    /\ Len(calls) < MaxDeployedCalls
    /\ \E cfg \in DeployedConfigs :
           PreloadFrames(cfg[1], cfg[2], DefaultPadLength)
    /\ UNCHANGED <<mapperVars, deviceVars, pageVars>>

NextImageLoads ==
    \E c \in DOMAIN calls :
        /\ calls[c].state = "pending"
        /\ OnLoad(c, EventsFired(calls[c]))
        /\ UNCHANGED <<mapperVars, deviceVars, pageVars>>

NextImageFails ==
    \E c \in DOMAIN calls :
        /\ calls[c].state = "pending"
        /\ OnError(c, EventsFired(calls[c]))
        /\ UNCHANGED <<mapperVars, deviceVars, pageVars>>

NextDeployed ==
    \/ StartDeployedLoad
    \/ NextImageLoads
    \/ NextImageFails

SpecDeployed == Init /\ [][NextDeployed]_vars

\* ------------------------------------------------------------ vocabulary
\* The most recently started invocation.
Latest == calls[Len(calls)]

Started == calls # <<>>

\* An earlier invocation: one that a later invocation has superseded.
Superseded(c) == c \in DOMAIN calls /\ c < Len(calls)

Holes(call) == {k \in 1..call.count : call.loadedImages[k] = Null}

\* An onload of this call ran after the call was superseded (the only way a
\* load event leaves its slot empty).
LoadedWhileStale(call) ==
    \E k \in 1..call.count : call.event[k] = "load" /\ call.loadedImages[k] = Null

HasError(call) == \E k \in 1..call.count : call.event[k] = "error"

CleanSlate == Images = <<>> /\ progress = 0 /\ isLoaded = FALSE

\* ================================================================ claims

\* C1: once a later preloadFrames call has started, no image load, image
\* error or completion of an earlier call changes the published images,
\* progress or isLoaded; isLoaded tells the outcome of the latest call only.
C1_SupersededCallIsInvisible ==
    /\ [](Started => (isLoaded <=> Latest.state = "fulfilled"))
    /\ [][\A c \in DOMAIN calls :
              (Superseded(c) /\ calls'[c] # calls[c]) => published' = published]_vars

\* C1 witness: an earlier call completed after it was superseded, with one
\* of its images loaded while stale, and the latest call's result is what
\* is published.
C1_Witness ==
    /\ Started
    /\ isLoaded
    /\ \E c \in DOMAIN calls :
           /\ Superseded(c)
           /\ calls[c].state = "fulfilled"
           /\ LoadedWhileStale(calls[c])

\* C2: every call whose fetches all succeed resolves to an array of exactly
\* count entries whose slot i holds the image fetched for frame i + 1,
\* whether or not another call was started in the meantime.
C2_ResolvesToEveryFrame ==
    \A c \in DOMAIN calls :
        calls[c].state = "fulfilled" =>
            /\ Len(calls[c].value) = calls[c].count
            /\ \A i \in Indices(calls[c]) :
                   calls[c].value[i + 1] =
                       NewImage(c, calls[c].basePath, i, calls[c].padLength)

\* C3: during one call the published progress never decreases, and it is
\* 100 exactly when that call has succeeded with all its frames loaded.
C3_ProgressIs100IffSucceeded ==
    /\ [](Started =>
            (progress = 100 <=>
                (Latest.state = "fulfilled" /\ Latest.loadedCount = Latest.count)))
    /\ [][Len(calls') = Len(calls) => progress' >= progress]_vars

\* C4: the full image array, progress = 100 and isLoaded = true appear
\* together: progress = 100 never shows with isLoaded false or no images,
\* and isLoaded never shows with progress below 100.
C4_SuccessIsPublishedTogether ==
    /\ progress = 100 => (isLoaded /\ Images # <<>>)
    /\ isLoaded => progress = 100

\* C5: a preloadFrames call leaves (no images, progress 0, isLoaded false)
\* published before any of its fetches completes, and whatever is published
\* afterwards comes from that call: nothing of an earlier load is left.
C5_StartsFromCleanSlate ==
    Started =>
        /\ EventsFired(Latest) = 0 => CleanSlate
        /\ images \in {EmptyArray, Len(calls)}
        /\ progress = Percent(Latest.loadedCount, Latest.count)
        /\ isLoaded => images = Len(calls)

\* C5 witness: a call that had published its images was followed by a new
\* call, none of whose fetches has completed yet.
C5_Witness ==
    /\ Len(calls) >= 2
    /\ EventsFired(Latest) = 0
    /\ CleanSlate
    /\ \E c \in DOMAIN calls :
           /\ Superseded(c)
           /\ calls[c].state = "fulfilled"
           /\ Holes(calls[c]) = {}

\* C6: as soon as one image of a call fails the call rejects, without
\* waiting for the other fetches; the error carries the address of a failed
\* frame; the partly filled array is neither returned nor published.
C6_FailsFastWithFrameAddress ==
    \A c \in DOMAIN calls :
        HasError(calls[c]) =>
            /\ calls[c].state = "rejected"
            /\ \E i \in Indices(calls[c]) :
                   /\ calls[c].event[i + 1] = "error"
                   /\ calls[c].value = FrameLoadError(calls[c], i)
            /\ images # c

\* C6 witness: one call has rejected while another of its fetches is still
\* outstanding, and a failed call holds a partly filled array.
C6_Witness ==
    /\ \E c \in DOMAIN calls :
           /\ HasError(calls[c])
           /\ EventsFired(calls[c]) < calls[c].count
           /\ calls[c].state = "rejected"
    /\ \E d \in DOMAIN calls :
           /\ HasError(calls[d])
           /\ calls[d].loadedCount > 0

\* C7: while the latest call is a failed one (until preloadFrames is invoked
\* again) isLoaded is false and no images are published.
C7_FailedLoadStaysUnloaded ==
    (Started /\ Latest.state = "rejected") => (~isLoaded /\ Images = <<>>)

\* C7 witness: the latest call has failed and all its other images have
\* loaded since, at least one of them.
C7_Witness ==
    /\ Started
    /\ Latest.state = "rejected"
    /\ EventsFired(Latest) = Latest.count
    /\ Latest.loadedCount > 0

\* C8: every fetch whose image has loaded or errored has a settled promise,
\* fulfilled on load and rejected on error, also when the call is stale;
\* a call all of whose images have loaded or errored has settled.
C8_EveryFetchSettles ==
    \A c \in DOMAIN calls :
        /\ \A k \in 1..calls[c].count :
               /\ calls[c].event[k] = "load" => calls[c].promise[k] = "fulfilled"
               /\ calls[c].event[k] = "error" => calls[c].promise[k] = "rejected"
        /\ EventsFired(calls[c]) = calls[c].count => calls[c].state # "pending"

\* C8 witness: a superseded call has settled after one of its images loaded
\* while it was stale, and the call that superseded it is still pending.
C8_Witness ==
    /\ Started
    /\ Latest.state = "pending"
    /\ \E c \in DOMAIN calls :
           /\ Superseded(c)
           /\ LoadedWhileStale(calls[c])
           /\ EventsFired(calls[c]) = calls[c].count
           /\ calls[c].state # "pending"

\* C9: the generation counter goes up by exactly one on every preloadFrames
\* call and never goes down; exactly the most recently started call is
\* current, and a call that is not current never becomes current again.
C9_GenerationIsMonotone ==
    /\ [](/\ generationRef = Len(calls)
          /\ \A c \in DOMAIN calls :
                 (calls[c].myGeneration = generationRef) <=> (c = Len(calls)))
    /\ [][/\ generationRef' >= generationRef
          /\ Len(calls') > Len(calls) => generationRef' = generationRef + 1
          /\ \A c \in DOMAIN calls :
                 calls[c].myGeneration # generationRef =>
                     calls'[c].myGeneration # generationRef']_vars

\* C9 witness: a second call has made the first one non-current.
C9_Witness ==
    /\ Len(calls) >= 2
    /\ calls[1].myGeneration # generationRef
    /\ Latest.myGeneration = generationRef

\* C10: the published image sequence is the array of the latest call and
\* holds, slot by slot, the handles that call fetched; once published it
\* stays the same array with the same contents until the next call.
C10_PublishedSequenceIsOwnAndFixed ==
    /\ [](/\ images \in {EmptyArray, Len(calls)}
          /\ \A k \in DOMAIN Images :
                 Images[k] = NewImage(Len(calls), Latest.basePath, k - 1,
                                      Latest.padLength))
    /\ [][(images # EmptyArray /\ Len(calls') = Len(calls)) =>
              (images' = images /\ Images' = Images)]_vars

\* C10 witness: images are published while a superseded call holds handles
\* of its own and has had all its image events.
C10_Witness ==
    /\ images # EmptyArray
    /\ \E c \in DOMAIN calls :
           /\ Superseded(c)
           /\ calls[c].loadedCount > 0
           /\ EventsFired(calls[c]) = calls[c].count

(***************************************************************************)
(* The scroll-to-frame mapper of ScrollVideo.  Two versions of the         *)
(* component are in the repository: unnamed/part_004 and                   *)
(* src/components/ScrollVideo.tsx.  They build the segment plan and        *)
(* resolve a scroll progress the same way and differ in their numeric      *)
(* settings, which a configuration record carries.                         *)
(*                                                                         *)
(* Numbers.  JavaScript numbers are doubles; the model computes exactly.   *)
(* A scroll progress is a whole number of ticks, One(totalSegments) ticks  *)
(* making 1.0, so that 1 / totalSegments and 0.5 are on the grid.  A       *)
(* fraction that is not a progress (segProg, opacity) is a pair            *)
(* <<numerator, denominator>> with a positive denominator.  Allocations    *)
(* and fade thresholds are in hundredths.                                  *)
(***************************************************************************)

TicksPerHalfSegment == 6
MaxBeats == 2
MaxFrames == 6
MaxUpdates == 2

\* 0.6 and 0.4, in hundredths
FAST_FRAME_ALLOCATION == 60
SLOW_FRAME_ALLOCATION == 40

part_004 ==
    [ file                    |-> "unnamed/part_004",
      FAST_FRAME_ALLOCATION   |-> FAST_FRAME_ALLOCATION,
      SLOW_FRAME_ALLOCATION   |-> SLOW_FRAME_ALLOCATION,
      fadeInEnd               |-> 10,
      fadeOutStart            |-> 90,
      setsSegmentProgress     |-> TRUE ]

ScrollVideo_tsx ==
    [ file                    |-> "src/components/ScrollVideo.tsx",
      FAST_FRAME_ALLOCATION   |-> 60,
      SLOW_FRAME_ALLOCATION   |-> 10,
      fadeInEnd               |-> 15,
      fadeOutStart            |-> 85,
      setsSegmentProgress     |-> FALSE ]

Versions == {part_004, ScrollVideo_tsx}

\* The titles of the services, which both versions list in the same order.
SERVICES ==
    << "Gestione Pagine Social",
       "Creazione Contenuti Personalizzati",
       "Creazione Applicativi Personalizzati",
       "Shooting Video/Fotografici",
       "Generazione Video AI",
       "Creazione Siti Web" >>

\* The number of ticks in the scroll progress 1.0.
One(totalSegments) == 2 * TicksPerHalfSegment * totalSegments

\* Fractions
Frac(n, d) == <<n, d>>
FracEq(a, b) == a[1] * b[2] = b[1] * a[2]
FracLess(a, b) == a[1] * b[2] < b[1] * a[2]
FracLeq(a, b) == a[1] * b[2] <= b[1] * a[2]

MathFloor(x) == x[1] \div x[2]
MathMin(a, b) == IF a < b THEN a ELSE b
MathMax(a, b) == IF a > b THEN a ELSE b

Infinity == [infinity |-> TRUE]

FramesPerSegmentUnweighted(totalFrames, allocation, n) ==
    IF n = 0 THEN Infinity
    ELSE MathFloor(Frac(totalFrames, n))

\* Math.floor((totalFrames * allocation) / n); n = 0 gives Infinity in the
\* code, which no segment then uses.
FramesPerSegment(totalFrames, allocation, n) ==
    IF n = 0 THEN Infinity
    ELSE MathFloor(Frac(totalFrames * allocation, 100 * n))

FramesPerFastSegment(totalFrames, allocation, fastSegments) ==
    FramesPerSegment(totalFrames, allocation, fastSegments)

FramesPerSlowSegment(totalFrames, allocation, slowSegments) ==
    FramesPerSegment(totalFrames, allocation, slowSegments)

FastSegmentSize(totalSegments) == One(totalSegments) \div totalSegments

SlowSegmentSizeThird(totalSegments) == One(totalSegments) \div (3 * totalSegments)

SlowSegmentSize(totalSegments) == One(totalSegments) \div totalSegments

IsSlow(i) == i % 2 = 1

ServiceIndexOneBased(i) == (i + 1) \div 2

\* Math.floor(i / 2)
ServiceIndex(i) == i \div 2

\* The constants the main effect computes before its loop.
Plan(totalFrames, serviceCount, version) ==
    LET fastSegments == serviceCount + 1
        slowSegments == serviceCount
        totalSegments == fastSegments + slowSegments
    IN  [ totalFrames          |-> totalFrames,
          totalSegments        |-> totalSegments,
          fastSegmentSize      |-> FastSegmentSize(totalSegments),
          slowSegmentSize      |-> SlowSegmentSize(totalSegments),
          framesPerFastSegment |->
              FramesPerFastSegment(totalFrames, version.FAST_FRAME_ALLOCATION,
                                   fastSegments),
          framesPerSlowSegment |->
              FramesPerSlowSegment(totalFrames, version.SLOW_FRAME_ALLOCATION,
                                   slowSegments) ]

\* The for loop: segments pushed for i, i + 1, ..., totalSegments - 1.
RECURSIVE SegmentLoop(_, _, _, _, _)
SegmentLoop(i, segments, currProgress, currFrame, plan) ==
    IF ~(i < plan.totalSegments) THEN segments
    ELSE IF IsSlow(i)
    THEN SegmentLoop(i + 1,
             Append(segments,
                 [ type          |-> "slow",
                   startProgress |-> currProgress,
                   endProgress   |-> currProgress + plan.slowSegmentSize,
                   startFrame    |-> currFrame,
                   endFrame      |-> currFrame + plan.framesPerSlowSegment,
                   serviceIndex  |-> ServiceIndex(i) ]),
             currProgress + plan.slowSegmentSize,
             currFrame + plan.framesPerSlowSegment,
             plan)
    ELSE SegmentLoop(i + 1,
             Append(segments,
                 [ type          |-> "fast",
                   startProgress |-> currProgress,
                   endProgress   |-> currProgress + plan.fastSegmentSize,
                   startFrame    |-> currFrame,
                   endFrame      |-> currFrame + plan.framesPerFastSegment ]),
             currProgress + plan.fastSegmentSize,
             currFrame + plan.framesPerFastSegment,
             plan)

EndAtTotalFrames(segments, plan) ==
    IF Len(segments) > 0
    THEN [segments EXCEPT ![Len(segments)].endFrame = plan.totalFrames,
                          ![Len(segments)].endProgress = One(plan.totalSegments)]
    ELSE segments

\* The assignments after the loop: the last segment ends at the last frame
\* and at progress 1.
EndAtLastFrame(segments, plan) ==
    IF Len(segments) > 0
    THEN [segments EXCEPT ![Len(segments)].endFrame = plan.totalFrames - 1,
                          ![Len(segments)].endProgress = One(plan.totalSegments)]
    ELSE segments

Segments(totalFrames, serviceCount, version) ==
    LET plan == Plan(totalFrames, serviceCount, version)
    IN  EndAtLastFrame(SegmentLoop(0, <<>>, 0, 0, plan), plan)

\* seg => scrollProgress >= seg.startProgress && scrollProgress < seg.endProgress
InSegmentClosed(seg, selfProgress) ==
    selfProgress >= seg.startProgress /\ selfProgress <= seg.endProgress

InSegment(seg, selfProgress) ==
    selfProgress >= seg.startProgress /\ selfProgress < seg.endProgress

\* Array.prototype.find: the first match, or undefined.
Matches(segments, selfProgress) ==
    {k \in DOMAIN segments : InSegment(segments[k], selfProgress)}

Find(segments, selfProgress) ==
    IF Matches(segments, selfProgress) = {} THEN Null
    ELSE segments[CHOOSE k \in Matches(segments, selfProgress) :
                      \A j \in Matches(segments, selfProgress) : k <= j]

FallbackFirst(segments) == segments[1]

Fallback(segments) == segments[Len(segments)]

CurrentSegment(segments, selfProgress) ==
    IF Find(segments, selfProgress) # Null THEN Find(segments, selfProgress)
    ELSE Fallback(segments)

SegProg(currentSegment, selfProgress) ==
    Frac(selfProgress - currentSegment.startProgress,
         currentSegment.endProgress - currentSegment.startProgress)

ClampOneBased(x, totalFrames) == MathMin(MathMax(1, x), totalFrames)

\* Math.min(Math.max(0, x), totalFrames - 1)
Clamp(x, totalFrames) == MathMin(MathMax(0, x), totalFrames - 1)

FrameIndex(currentSegment, segProg, totalFrames) ==
    LET frameRange == currentSegment.endFrame - currentSegment.startFrame
    IN  Clamp(MathFloor(Frac(currentSegment.startFrame * segProg[2]
                               + segProg[1] * frameRange,
                             segProg[2])),
              totalFrames)

ShowsService(currentSegment) ==
    currentSegment.type = "slow" /\ "serviceIndex" \in DOMAIN currentSegment

OpacityNoFadeOut(version, segProg) ==
    IF FracLess(segProg, Frac(version.fadeInEnd, 100))
    THEN Frac(100 * segProg[1], version.fadeInEnd * segProg[2])
    ELSE Frac(1, 1)

\* let opacity = 1; if (segProg < fadeInEnd) opacity = segProg / fadeInEnd;
\* else if (segProg > fadeOutStart) opacity = (1 - segProg) / (1 - fadeOutStart)
Opacity(version, segProg) ==
    IF FracLess(segProg, Frac(version.fadeInEnd, 100))
    THEN Frac(100 * segProg[1], version.fadeInEnd * segProg[2])
    ELSE IF FracLess(Frac(version.fadeOutStart, 100), segProg)
    THEN Frac(100 * (segProg[2] - segProg[1]),
              (100 - version.fadeOutStart) * segProg[2])
    ELSE Frac(1, 1)

\* const framesPath = isMobile ? MOBILE_FRAMES_PATH : DESKTOP_FRAMES_PATH
FramesPathDesktopOnly(mobile) == DESKTOP_FRAMES_PATH

FramesPath(mobile) ==
    IF mobile = "true" THEN MOBILE_FRAMES_PATH ELSE DESKTOP_FRAMES_PATH

\* const frameCount = isMobile ? MOBILE_FRAME_COUNT : DESKTOP_FRAME_COUNT,
\* scaled down: the mobile set is the smaller one.
SmallFrameCount(mobile) ==
    IF mobile = "true" THEN MaxCount ELSE MaxCount + 1

\* The first frame of the desktop sequence drawn with the corrective zoom,
\* and its counterpart in the scaled-down sets (the same fraction of the
\* desktop frames).
CORRECTIVE_ZOOM_FRAME == 341

SmallZoomFrame ==
    (CORRECTIVE_ZOOM_FRAME * SmallFrameCount("false")) \div DESKTOP_FRAME_COUNT

\* const correctiveZoom = !isMobile && frameIndex >= 341 ? 1.03 : 1.0
CorrectiveZoom(mobile, frameIndex) ==
    mobile # "true" /\ frameIndex >= SmallZoomFrame

\* The drawImage calls of drawFrame(frameIndex) in a render with the array
\* imgs and isMobile = mobile: none when imgs[frameIndex] is missing.
DrawImage(imgs, mobile, frameIndex) ==
    IF frameIndex + 1 \in DOMAIN imgs /\ imgs[frameIndex + 1] # Null
    THEN << [ img            |-> imgs[frameIndex + 1],
              frameIndex     |-> frameIndex,
              correctiveZoom |-> CorrectiveZoom(mobile, frameIndex) ] >>
    ELSE <<>>

\* drawFrame: returns without drawing when images[frameIndex] is missing.
DrawFrame(frameIndex) ==
    IF frameIndex + 1 \in DOMAIN Images /\ Images[frameIndex + 1] # Null
    THEN frameIndex
    ELSE canvasFrame

RedrawAlways(frameIndex) == TRUE

\* if (frameIndex !== currentFrameRef.current)
Redraw(frameIndex) == frameIndex # currentFrameRef

\* The frame index onUpdate resolves for a scroll progress.
Resolve(trigger, selfProgress) ==
    LET currentSegment == CurrentSegment(trigger.segments, selfProgress)
    IN  FrameIndex(currentSegment, SegProg(currentSegment, selfProgress),
                   trigger.totalFrames)

\* The effects that run once the frames are published: drawFrame(0), then
\* the main effect, which builds the segments and creates the ScrollTrigger.
\* serviceCount is SERVICES.length.
NewScrollTrigger(imgs, version, serviceCount) ==
    [ created      |-> TRUE,
      version      |-> version,
      serviceCount |-> serviceCount,
      totalFrames  |-> Len(imgs),
      one          |-> One(2 * serviceCount + 1),
      segments     |-> Segments(Len(imgs), serviceCount, version) ]

CreateScrollTrigger(version, serviceCount) ==
    /\ isLoaded
    /\ Len(Images) > 0
    /\ scrollTrigger = NoTrigger
    /\ canvasFrame' = DrawFrame(0)
    /\ drawn' = DrawImage(Images, isMobile, 0)
    /\ scrollTrigger' = NewScrollTrigger(Images, version, serviceCount)
    /\ UNCHANGED <<scrollProgress, currentFrameRef, currentServiceIndex,
                   serviceOpacity, segmentProgress, updates, drawCalls>>
    /\ UNCHANGED <<preloadVars, isMobile, matches, pageVars>>

\* onUpdate(self) with self.progress = selfProgress.
OnUpdate(selfProgress) ==
    LET segments == scrollTrigger.segments
        totalFrames == scrollTrigger.totalFrames
        currentSegment == CurrentSegment(segments, selfProgress)
        segProg == SegProg(currentSegment, selfProgress)
        frameIndex == FrameIndex(currentSegment, segProg, totalFrames)
    IN  /\ scrollTrigger # NoTrigger
        /\ scrollProgress' = selfProgress
        /\ updates' = updates + 1
        /\ IF Redraw(frameIndex)
           THEN /\ currentFrameRef' = frameIndex
                /\ canvasFrame' = DrawFrame(frameIndex)
                /\ drawn' = DrawImage(Images, isMobile, frameIndex)
                /\ drawCalls' = drawCalls + 1
           ELSE /\ drawn' = <<>>
                /\ UNCHANGED <<currentFrameRef, canvasFrame, drawCalls>>
        /\ IF ShowsService(currentSegment)
           THEN /\ currentServiceIndex' = currentSegment.serviceIndex
                /\ serviceOpacity' = Opacity(scrollTrigger.version, segProg)
                /\ segmentProgress' =
                       IF scrollTrigger.version.setsSegmentProgress
                       THEN segProg ELSE segmentProgress
           ELSE /\ serviceOpacity' = Frac(0, 1)
                /\ currentServiceIndex' = -1
                /\ segmentProgress' =
                       IF scrollTrigger.version.setsSegmentProgress
                       THEN Frac(0, 1) ELSE segmentProgress
        /\ UNCHANGED scrollTrigger
        /\ UNCHANGED <<preloadVars, isMobile, matches, pageVars>>

\* A hook whose load of totalFrames frames has completed and is published.
Loaded(basePath, totalFrames) ==
    LET call == NewCall(1, basePath, totalFrames, DefaultPadLength)
    IN  /\ generationRef = 1
        /\ images = 1
        /\ progress = 100
        /\ isLoaded = TRUE
        /\ calls =
               << [call EXCEPT
                      !.loadedCount = totalFrames,
                      !.loadedImages =
                          [k \in 1..totalFrames |->
                              NewImage(1, basePath, k - 1, DefaultPadLength)],
                      !.event = [k \in 1..totalFrames |-> "load"],
                      !.promise = [k \in 1..totalFrames |-> "fulfilled"],
                      !.state = "fulfilled",
                      !.value = call.loadedImages] >>

\* The frame counts and service counts of the mapper's specification: every
\* small pair, and 100 frames with the 2 services of the worked example and
\* with the services of the component.
Example == [totalFrames |-> 100, serviceCount |-> 2]

FrameCounts == (1..MaxFrames) \cup {Example.totalFrames}

ServiceCounts(totalFrames) ==
    IF totalFrames = Example.totalFrames
    THEN {Example.serviceCount, Len(SERVICES)}
    ELSE 0..MaxBeats

InitMapper ==
    /\ ScrollVideoInit
    /\ isMobile = "false"
    /\ matches = "false"
    /\ drawn = <<>>
    /\ PageInit
    /\ \E totalFrames \in FrameCounts :
           Loaded(DESKTOP_FRAMES_PATH, totalFrames)

FramesReady ==
    \E version \in Versions : \E serviceCount \in ServiceCounts(Len(Images)) :
        CreateScrollTrigger(version, serviceCount)

ScrollUpdate ==
    /\ scrollTrigger # NoTrigger
    /\ updates < MaxUpdates
    /\ \E selfProgress \in 0..scrollTrigger.one : OnUpdate(selfProgress)

NextMapper == FramesReady \/ ScrollUpdate

SpecMapper == InitMapper /\ [][NextMapper]_vars

(***************************************************************************)
(* Vocabulary of the mapper's properties                                   *)
(***************************************************************************)

Created == scrollTrigger # NoTrigger

\* The plans the properties speak of: totalFrames >= 2 * beatCount + 1.
InScope ==
    /\ Created
    /\ scrollTrigger.totalFrames >= 2 * scrollTrigger.serviceCount + 1

Updated == Created /\ updates >= 1

\* Some step of onUpdate.
UpdateStep == updates' = updates + 1

Width(seg) == seg.endProgress - seg.startProgress

Span(seg) == seg.endFrame - seg.startFrame

\* C11: the segments tile the scroll range: the first starts at 0, each
\* starts where the previous one ends, each is 1 / (2 * beatCount + 1) wide,
\* the last ends at exactly 1, and every scroll value in [0,1) is in exactly
\* one segment.
C11_SegmentsTileScroll ==
    InScope =>
        LET segments == scrollTrigger.segments
            n == 2 * scrollTrigger.serviceCount + 1
        IN  /\ Len(segments) = n
            /\ segments[1].startProgress = 0
            /\ \A k \in 1..(n - 1) :
                   segments[k + 1].startProgress = segments[k].endProgress
            /\ \A k \in 1..n : Width(segments[k]) * n = scrollTrigger.one
            /\ segments[n].endProgress = scrollTrigger.one
            /\ \A selfProgress \in 0..(scrollTrigger.one - 1) :
                   Cardinality(Matches(segments, selfProgress)) = 1

C11_Witness ==
    /\ InScope
    /\ scrollTrigger.serviceCount = 2
    /\ Len(scrollTrigger.segments) = 5

\* C12: the 2 * beatCount + 1 segments alternate fast, slow, fast, ... from a
\* fast one to a fast one; a segment has a beat index iff it is slow; the
\* segment at ordinal k has beat index floor(k / 2), so the slow segments in
\* order have 0, 1, ..., beatCount - 1.
C12_SegmentsAlternate ==
    Created =>
        LET segments == scrollTrigger.segments
            n == Len(segments)
            slow == {k \in 1..n : segments[k].type = "slow"}
        IN  /\ n = 2 * scrollTrigger.serviceCount + 1
            /\ segments[1].type = "fast"
            /\ segments[n].type = "fast"
            /\ \A k \in 1..n : segments[k].type \in {"fast", "slow"}
            /\ \A k \in 1..(n - 1) : segments[k].type # segments[k + 1].type
            /\ \A k \in 1..n :
                   k \in slow <=> "serviceIndex" \in DOMAIN segments[k]
            /\ \A k \in slow :
                   /\ segments[k].serviceIndex * 2 <= k - 1
                   /\ k - 1 < (segments[k].serviceIndex + 1) * 2
                   /\ segments[k].serviceIndex
                          = Cardinality({j \in slow : j < k})
            /\ {segments[k].serviceIndex : k \in slow}
                   = 0..(scrollTrigger.serviceCount - 1)

C12_Witness ==
    /\ Created
    /\ Len(scrollTrigger.segments) = 5
    /\ scrollTrigger.segments[4].type = "slow"
    /\ scrollTrigger.segments[4].serviceIndex = 1

\* C13: the frame ranges are contiguous: the first starts at frame 0, each
\* segment starts at the frame where the previous one ends, and the last
\* ends at frame totalFrames - 1.
C13_FrameRangesContiguous ==
    InScope =>
        LET segments == scrollTrigger.segments
            n == Len(segments)
        IN  /\ segments[1].startFrame = 0
            /\ \A k \in 1..(n - 1) :
                   segments[k + 1].startFrame = segments[k].endFrame
            /\ segments[n].endFrame = scrollTrigger.totalFrames - 1

C13_Witness ==
    /\ InScope
    /\ scrollTrigger.serviceCount = 2
    /\ scrollTrigger.segments[5].startFrame > 0
    /\ scrollTrigger.segments[5].endFrame = scrollTrigger.totalFrames - 1

\* C14: every fast segment but the last spans
\* floor(totalFrames * 0.6 / (beatCount + 1)) frames and every slow segment
\* spans floor(totalFrames * 0.4 / beatCount) frames.
C14_SpansFollowAllocations ==
    InScope =>
        LET segments == scrollTrigger.segments
            n == Len(segments)
            totalFrames == scrollTrigger.totalFrames
            beatCount == scrollTrigger.serviceCount
        IN  \A k \in 1..n :
                /\ (segments[k].type = "fast" /\ k < n) =>
                       Span(segments[k])
                           = (totalFrames * 60) \div (100 * (beatCount + 1))
                /\ segments[k].type = "slow" =>
                       Span(segments[k])
                           = (totalFrames * 40) \div (100 * beatCount)

\* C15: for a fixed plan the resolved frame index never goes back when the
\* scroll progress does not: an update at a progress at or after the
\* previous one records a frame index at or after the previous one.
C15_FrameIndexMonotone ==
    [][ (UpdateStep /\ scrollProgress' >= scrollProgress)
            => currentFrameRef' >= currentFrameRef ]_vars

C15_Witness ==
    /\ updates >= 2
    /\ scrollProgress = scrollTrigger.one
    /\ currentFrameRef = scrollTrigger.totalFrames - 1
    /\ currentFrameRef > 0

\* C16: the resolved frame index is in 0..totalFrames-1 and addresses a
\* loaded image.
C16_FrameIndexInRange ==
    InScope =>
        /\ scrollTrigger.totalFrames = Len(Images)
        /\ currentFrameRef \in 0..(scrollTrigger.totalFrames - 1)
        /\ Images[currentFrameRef + 1] # Null
        /\ \A selfProgress \in 0..scrollTrigger.one :
               Resolve(scrollTrigger, selfProgress)
                   \in 0..(scrollTrigger.totalFrames - 1)

C16_Witness ==
    /\ InScope
    /\ Updated
    /\ scrollTrigger.totalFrames > 1
    /\ scrollProgress > 0
    /\ scrollProgress < scrollTrigger.one
    /\ currentFrameRef > 0

\* C17: at scroll progress 1 no segment matches, the last segment is used
\* and the frame index is totalFrames - 1; every progress below 1 matches a
\* segment.
C17_FallbackOnlyAtOne ==
    Created =>
        LET segments == scrollTrigger.segments
            one == scrollTrigger.one
        IN  /\ Matches(segments, one) = {}
            /\ Find(segments, one) = Null
            /\ CurrentSegment(segments, one) = segments[Len(segments)]
            /\ Resolve(scrollTrigger, one) = scrollTrigger.totalFrames - 1
            /\ \A selfProgress \in 0..(one - 1) :
                   Find(segments, selfProgress) # Null
            /\ (Updated /\ scrollProgress = one) =>
                   currentFrameRef = scrollTrigger.totalFrames - 1

C17_Witness ==
    /\ Updated
    /\ scrollProgress = scrollTrigger.one
    /\ scrollTrigger.serviceCount >= 1
    /\ scrollTrigger.totalFrames > 1
    /\ canvasFrame = scrollTrigger.totalFrames - 1

\* The plan of the worked example: 2 beats, 100 frames, allocations 0.6 and
\* 0.4.
ExampleTrigger ==
    /\ Created
    /\ scrollTrigger.totalFrames = Example.totalFrames
    /\ scrollTrigger.serviceCount = Example.serviceCount
    /\ scrollTrigger.version = part_004

\* C18, as stated: in the example, scroll progress 0.5 is the start of the
\* segment of index 2, a fast segment with frames [40,60), and resolves to
\* frame index 40.
C18_HalfIsStartOfThirdSegment ==
    ExampleTrigger =>
        LET third == scrollTrigger.segments[3]
            half == scrollTrigger.one \div 2
        IN  /\ third.type = "fast"
            /\ third.startFrame = 40
            /\ third.endFrame = 60
            /\ third.startProgress = half
            /\ Resolve(scrollTrigger, half) = 40
            /\ (Updated /\ scrollProgress = half) => currentFrameRef = 40

\* C18, amended: in the example, scroll progress 0.4 is the start of the
\* segment of index 2, a fast segment with frames [40,60), and resolves to
\* frame index 40; scroll progress 0.5 is inside that segment and resolves
\* to a frame index after 40 and before 60.
C18_TwoFifthsIsStartOfThirdSegment ==
    ExampleTrigger =>
        LET third == scrollTrigger.segments[3]
            half == scrollTrigger.one \div 2
            twoFifths == (2 * scrollTrigger.one) \div 5
        IN  /\ Len(scrollTrigger.segments) = 5
            /\ \A k \in 1..5 :
                   Width(scrollTrigger.segments[k]) * 5 = scrollTrigger.one
            /\ third.type = "fast"
            /\ third.startFrame = 40
            /\ third.endFrame = 60
            /\ third.startProgress = twoFifths
            /\ Resolve(scrollTrigger, twoFifths) = 40
            /\ (Updated /\ scrollProgress = twoFifths) => currentFrameRef = 40
            /\ third.startProgress < half
            /\ InSegment(third, half)
            /\ Resolve(scrollTrigger, half) \in 41..59
            /\ (Updated /\ scrollProgress = half) => currentFrameRef \in 41..59

C18_Witness ==
    /\ ExampleTrigger
    /\ Updated
    /\ scrollProgress = (2 * scrollTrigger.one) \div 5
    /\ currentFrameRef = 40
    /\ canvasFrame = 40

\* C19: an update draws only when the frame index it resolves differs from
\* the recorded one, and then records it; an update at the scroll progress
\* of the previous update draws nothing and leaves the recorded index as it
\* was.
C19_RedrawOnlyOnChange ==
    [][ UpdateStep =>
            /\ drawCalls' \in {drawCalls, drawCalls + 1}
            /\ drawCalls' # drawCalls
                   <=> Resolve(scrollTrigger, scrollProgress') # currentFrameRef
            /\ currentFrameRef' = Resolve(scrollTrigger, scrollProgress')
            /\ (Updated /\ scrollProgress' = scrollProgress) =>
                   /\ drawCalls' = drawCalls
                   /\ currentFrameRef' = currentFrameRef
                   /\ canvasFrame' = canvasFrame ]_vars

C19_Witness ==
    /\ updates >= 2
    /\ drawCalls = 1
    /\ currentFrameRef > 0
    /\ canvasFrame = currentFrameRef

\* C20: after an update in a fast segment the overlay shows no beat at
\* opacity 0; after an update in a slow segment it shows that segment's
\* beat, at an opacity on the line from 0 at local progress 0 to 1 at the
\* end of the fade-in window, 1 from there to the start of the fade-out
\* window, and on the line from 1 there to 0 at local progress 1; the
\* opacity is in [0,1].
C20_OverlayFollowsSegment ==
    Updated =>
        LET currentSegment ==
                CurrentSegment(scrollTrigger.segments, scrollProgress)
            segProg == SegProg(currentSegment, scrollProgress)
            fadeInEnd == Frac(scrollTrigger.version.fadeInEnd, 100)
            fadeOutStart == Frac(scrollTrigger.version.fadeOutStart, 100)
            opacity == serviceOpacity
        IN  /\ FracLeq(Frac(0, 1), opacity)
            /\ FracLeq(opacity, Frac(1, 1))
            /\ currentSegment.type = "fast" =>
                   /\ currentServiceIndex = -1
                   /\ FracEq(opacity, Frac(0, 1))
            /\ currentSegment.type = "slow" =>
                   /\ currentServiceIndex = currentSegment.serviceIndex
                   /\ FracLess(segProg, fadeInEnd) =>
                          \* opacity * fadeInEnd = segProg
                          FracEq(Frac(opacity[1] * fadeInEnd[1],
                                      opacity[2] * fadeInEnd[2]), segProg)
                   /\ (FracLeq(fadeInEnd, segProg)
                          /\ FracLeq(segProg, fadeOutStart)) =>
                          FracEq(opacity, Frac(1, 1))
                   /\ FracLess(fadeOutStart, segProg) =>
                          \* opacity * (1 - fadeOutStart) = 1 - segProg
                          FracEq(Frac(opacity[1]
                                        * (fadeOutStart[2] - fadeOutStart[1]),
                                      opacity[2] * fadeOutStart[2]),
                                 Frac(segProg[2] - segProg[1], segProg[2]))

C20_Witness ==
    /\ Updated
    /\ currentServiceIndex = 1
    /\ FracLess(Frac(scrollTrigger.version.fadeOutStart, 100),
                SegProg(CurrentSegment(scrollTrigger.segments, scrollProgress),
                        scrollProgress))
    /\ FracLess(Frac(0, 1), serviceOpacity)
    /\ FracLess(serviceOpacity, Frac(1, 1))

(***************************************************************************)
(* The frame file names.  One preloadFrames call of MaxNamedFrames frames  *)
(* with a pad length of 1 to 4, its images completing in index order.      *)
(***************************************************************************)

MaxNamedFrames == 100

PadLengths == 1..DefaultPadLength

StartNamedLoad ==
    /\ calls = <<>>
    /\ \E padLength \in PadLengths :
           PreloadFrames(DESKTOP_FRAMES_PATH, MaxNamedFrames, padLength)
    /\ UNCHANGED <<mapperVars, deviceVars, pageVars>>

NextNames ==
    \/ StartNamedLoad
    \/ NextImageLoads
    \/ NextImageFails

SpecNames == Init /\ [][NextNames]_vars

\* The number a digit string denotes.
RECURSIVE DigitsValue(_)
DigitsValue(d) ==
    IF d = <<>> THEN 0
    ELSE 10 * DigitsValue(SubSeq(d, 1, Len(d) - 1)) + d[Len(d)]

\* The number of decimal digits of n >= 1.
RECURSIVE DigitCount(_)
DigitCount(n) == IF n < 10 THEN 1 ELSE 1 + DigitCount(n \div 10)

\* The file addresses of the loaded images of a call, by frame number.
Addresses(call) ==
    [k \in {j \in 1..call.count : call.loadedImages[j] # Null}
        |-> call.loadedImages[k].src]

\* C23: the fetch for index i has the address basePath/frame_<N>.webp, N
\* being i + 1 in decimal, padded on the left with zeros to at least
\* padLength digits; index 0 with pad 4 gives 0001; distinct indices have
\* distinct names.
C23_FrameFileNames ==
    \A c \in DOMAIN calls :
        LET call == calls[c]
            src == Addresses(call)
        IN  /\ \A k \in DOMAIN src :
                   /\ src[k].basePath = call.basePath
                   /\ \A n \in DOMAIN src[k].frameNumber :
                          src[k].frameNumber[n] \in 0..9
                   /\ DigitsValue(src[k].frameNumber) = k
                   /\ Len(src[k].frameNumber)
                          = MathMax(call.padLength, DigitCount(k))
                   /\ (k = 1 /\ call.padLength = 4) =>
                          src[k].frameNumber = <<0, 0, 0, 1>>
            /\ \A j, k \in DOMAIN src : j # k => src[j] # src[k]
            /\ (call.state = "rejected") =>
                   \E k \in 1..call.count :
                       /\ call.event[k] = "error"
                       /\ call.value.src.basePath = call.basePath
                       /\ DigitsValue(call.value.src.frameNumber) = k
                       /\ Len(call.value.src.frameNumber)
                              = MathMax(call.padLength, DigitCount(k))

C23_Witness ==
    /\ Started
    /\ Latest.padLength = 2
    /\ Latest.loadedImages[1] # Null
    /\ Latest.loadedImages[1].src.frameNumber = <<0, 1>>
    /\ Latest.loadedImages[100] # Null
    /\ Latest.loadedImages[100].src.frameNumber = <<1, 0, 0>>

\* C25: when isLoaded is true the published array has exactly as many
\* entries as the latest preloadFrames call asked for, none of them empty;
\* a call one of whose load handlers ran while it was stale is never the
\* published one.
C25_LoadedMeansComplete ==
    /\ isLoaded =>
           /\ Started
           /\ Len(Images) = Latest.count
           /\ \A k \in DOMAIN Images : Images[k] # Null
    /\ \A c \in DOMAIN calls : LoadedWhileStale(calls[c]) => images # c

C25_Witness ==
    /\ isLoaded
    /\ Len(calls) = 2
    /\ LoadedWhileStale(calls[1])
    /\ calls[1].state = "fulfilled"
    /\ Len(Images) = Latest.count

(***************************************************************************)
(* The ScrollVideo component around the hook and the mapper: device        *)
(* detection, the effects of each render, resize.  A state update, the     *)
(* renders it causes and their effects are one action; the effects run in  *)
(* declaration order: preload, resize, drawFrame(0), main.                 *)
(***************************************************************************)
MaxLoads == 2     \* preloadFrames invocations of one mounted component
MaxScrolls == 1   \* scroll updates of one mounted component

\* The canvas after it was cleared or left as `before` and then drawn on.
Shown(before, draws) ==
    IF draws = <<>> THEN before ELSE draws[Len(draws)].frameIndex

\* handleCanvasResize in a render with imgs and mobile: setting canvas.width
\* clears the canvas, then if (images.length > 0) drawFrame(currentFrameRef.current).
HandleCanvasResize(imgs, mobile) ==
    IF Len(imgs) > 0 THEN DrawImage(imgs, mobile, currentFrameRef) ELSE <<>>

\* if (isLoaded && images.length > 0) drawFrame(0)
DrawFirstFrame(loaded, imgs, mobile) ==
    IF loaded /\ Len(imgs) > 0 THEN DrawImage(imgs, mobile, 0) ELSE <<>>

\* Variant whose clean-up leaves the previous ScrollTrigger alive.
MainEffectKeepsTrigger(loaded, imgs) ==
    IF loaded /\ Len(imgs) > 0
    THEN NewScrollTrigger(imgs, part_004, Len(SERVICES))
    ELSE scrollTrigger

\* The main effect of a render with loaded and imgs, after the clean-up of
\* the previous render killed its ScrollTrigger: the trigger that exists.
MainEffect(loaded, imgs) ==
    IF loaded /\ Len(imgs) > 0
    THEN NewScrollTrigger(imgs, part_004, Len(SERVICES))
    ELSE NoTrigger

\* The resize, drawFrame(0) and main effects of a render in which images,
\* isLoaded or isMobile changed.
Effects(loaded, imgs, mobile) ==
    LET draws == HandleCanvasResize(imgs, mobile)
                     \o DrawFirstFrame(loaded, imgs, mobile)
    IN  [ drawn         |-> draws,
          canvasFrame   |-> Shown(Blank, draws),
          scrollTrigger |-> MainEffect(loaded, imgs) ]

\* Mount: useLayoutEffect reads the media query, the re-render's preload
\* effect starts the first load.  Nothing is drawn: images is empty.
DetectDevice ==
    /\ isMobile = "null"
    /\ isMobile' = matches
    /\ PreloadFrames(FramesPath(isMobile'), SmallFrameCount(isMobile'),
                     DefaultPadLength)
    /\ drawn' = <<>>
    /\ UNCHANGED <<mapperVars, matches, pageVars>>

\* The media query's change event: setIsMobile(e.matches).  The render with
\* the new isMobile still has the old images and isLoaded; its preload
\* effect resets them, and the render that follows clears the canvas and
\* kills the ScrollTrigger.
MediaChange ==
    /\ isMobile # "null"
    /\ Len(calls) < MaxLoads
    /\ matches' = IF matches = "true" THEN "false" ELSE "true"
    /\ isMobile' = matches'
    /\ PreloadFrames(FramesPath(isMobile'), SmallFrameCount(isMobile'),
                     DefaultPadLength)
    /\ LET first  == Effects(isLoaded, Images, isMobile')
           second == Effects(FALSE, <<>>, isMobile')
       IN  /\ drawn' = first.drawn \o second.drawn
           /\ canvasFrame' = second.canvasFrame
           /\ scrollTrigger' = second.scrollTrigger
    /\ UNCHANGED <<scrollProgress, currentFrameRef, currentServiceIndex,
                   serviceOpacity, segmentProgress, updates, drawCalls>>
    /\ UNCHANGED pageVars

\* The next image of a pending load arrives; when the load publishes, the
\* render with the new images runs the effects.
FrameLoads ==
    \E c \in DOMAIN calls :
        /\ calls[c].state = "pending"
        /\ OnLoad(c, EventsFired(calls[c]))
        /\ IF images' # images
           THEN LET effects == Effects(isLoaded', Images', isMobile)
                IN  /\ drawn' = effects.drawn
                    /\ canvasFrame' = effects.canvasFrame
                    /\ scrollTrigger' = effects.scrollTrigger
           ELSE /\ drawn' = <<>>
                /\ UNCHANGED <<canvasFrame, scrollTrigger>>
        /\ UNCHANGED <<scrollProgress, currentFrameRef, currentServiceIndex,
                       serviceOpacity, segmentProgress, updates, drawCalls>>
        /\ UNCHANGED <<isMobile, matches, pageVars>>

\* The next image of a pending load fails: nothing is published.
FrameFails ==
    \E c \in DOMAIN calls :
        /\ calls[c].state = "pending"
        /\ OnError(c, EventsFired(calls[c]))
        /\ drawn' = <<>>
        /\ UNCHANGED <<mapperVars, isMobile, matches, pageVars>>

\* A window resize that does not cross the breakpoint.
Resize ==
    /\ isMobile # "null"
    /\ drawn' = HandleCanvasResize(Images, isMobile)
    /\ canvasFrame' = Shown(Blank, drawn')
    /\ UNCHANGED <<scrollTrigger, scrollProgress, currentFrameRef,
                   currentServiceIndex, serviceOpacity, segmentProgress,
                   updates, drawCalls>>
    /\ UNCHANGED <<preloadVars, isMobile, matches, pageVars>>

\* A scroll update at the start of a segment or at the end of the scroll.
Scroll ==
    /\ scrollTrigger # NoTrigger
    /\ updates < MaxScrolls
    /\ \E k \in 0..Len(scrollTrigger.segments) :
           OnUpdate(2 * k * TicksPerHalfSegment)

InitComponent ==
    /\ generationRef = 0
    /\ images = EmptyArray
    /\ progress = 0
    /\ isLoaded = FALSE
    /\ calls = <<>>
    /\ ScrollVideoInit
    /\ isMobile = "null"
    /\ matches \in {"true", "false"}
    /\ drawn = <<>>
    /\ PageInit

NextComponent ==
    \/ DetectDevice
    \/ MediaChange
    \/ FrameLoads
    \/ FrameFails
    \/ Resize
    \/ Scroll

SpecComponent == InitComponent /\ [][NextComponent]_vars

(***************************************************************************)
(* Properties of the component                                             *)
(***************************************************************************)
\* The frames are not ready: isLoaded is false or images is empty.
NotReady == ~isLoaded \/ Images = <<>>

\* C21: while isLoaded is false or the published images are empty no
\* ScrollTrigger exists, so the step out of such a state is never a scroll
\* update; the ScrollTrigger of the previous plan is gone in the state in
\* which a new load has reset the published state.
C21_InertUntilLoaded ==
    /\ [](NotReady => scrollTrigger = NoTrigger)
    /\ [][NotReady => ~UpdateStep]_vars
    /\ [][(isLoaded /\ ~isLoaded') => scrollTrigger' = NoTrigger]_vars

\* A reload after the first plan was scrolled: the first load completed,
\* an update ran, the second load is still pending.
C21_Witness ==
    /\ Len(calls) = 2
    /\ calls[1].state = "fulfilled"
    /\ calls[2].state = "pending"
    /\ updates >= 1
    /\ NotReady
    /\ scrollTrigger = NoTrigger

\* C22: a step starts a load only if it changes isMobile to a determined
\* value, and the load it starts has the path and the count of the new
\* class; a step that leaves isMobile alone (a resize, a scroll update, an
\* image event) starts none; no load exists while isMobile is null.
C22_LoadsOnlyOnClassChange ==
    /\ [](isMobile = "null" => calls = <<>>)
    /\ [][calls' # calls /\ Len(calls') # Len(calls) =>
             /\ isMobile' # isMobile
             /\ isMobile' \in {"true", "false"}
             /\ Len(calls') = Len(calls) + 1
             /\ calls'[Len(calls')].basePath =
                    (IF isMobile' = "true" THEN MOBILE_FRAMES_PATH
                                           ELSE DESKTOP_FRAMES_PATH)
             /\ calls'[Len(calls')].count =
                    (IF isMobile' = "true" THEN MaxCount ELSE MaxCount + 1)]_vars

\* Two loads, one per device class: the window was wide at mount and
\* crossed the breakpoint afterwards.
C22_Witness ==
    /\ Len(calls) = 2
    /\ calls[1].basePath # calls[2].basePath
    /\ calls[2].basePath = MOBILE_FRAMES_PATH
    /\ isMobile = "true"

\* C26: whenever the frames are ready the canvas shows the frame whose
\* index is in currentFrameRef.
C26_CanvasShowsCurrentFrame ==
    (isLoaded /\ Images # <<>>) => canvasFrame = currentFrameRef

\* C27: whenever isLoaded is true the published images are those of the
\* detected device class, as many as the class has frames and fetched from
\* its path; and every drawImage call made with the corrective zoom draws
\* an image of the desktop set.
C27_FramesOfDetectedClass ==
    /\ isLoaded =>
           /\ Len(Images) = (IF isMobile = "true" THEN MaxCount ELSE MaxCount + 1)
           /\ \A k \in DOMAIN Images :
                  /\ Images[k] # Null
                  /\ Images[k].src.basePath =
                         (IF isMobile = "true" THEN MOBILE_FRAMES_PATH
                                               ELSE DESKTOP_FRAMES_PATH)
    /\ \A k \in DOMAIN drawn :
           drawn[k].correctiveZoom =>
               drawn[k].img.src.basePath = DESKTOP_FRAMES_PATH

(***************************************************************************)
(* IntroOverlay: the text fades on a timer, the overlay on the first       *)
(* scroll.                                                                 *)
(***************************************************************************)
MaxSeconds == 6        \* the clock stops after this many seconds
MaxScrollEvents == 2   \* scroll events of the window in one behaviour

AUTO_DISMISS_MS == 4200
TEXT_FADE_DUR == 900       \* 0.9 s, in milliseconds
OVERLAY_FADE_DUR == 1100   \* 1.1 s, in milliseconds

\* fadeOutText: guarded by textFadedRef; the text area exists until the
\* overlay is gone.
FadeOutText(o) ==
    IF o.textFadedRef THEN o
    ELSE IF o.gone THEN [o EXCEPT !.textFadedRef = TRUE]
    ELSE [o EXCEPT !.textFadedRef = TRUE,
                   !.textTween = "running",
                   !.textStart = o.now,
                   !.textFades = @ + 1]

\* fadeOutAll: guarded by overlayGoneRef; without an overlay element it
\* sets gone at once.
FadeOutAll(o) ==
    IF o.overlayGoneRef THEN o
    ELSE IF o.gone THEN [o EXCEPT !.overlayGoneRef = TRUE]
    ELSE [o EXCEPT !.overlayGoneRef = TRUE,
                   !.overlayTween = "running",
                   !.overlayStart = o.now,
                   !.overlayFades = @ + 1]

\* Variant of the listener without clearTimeout(timer).
OnScrollKeepsTimer(o) ==
    FadeOutAll([o EXCEPT !.onScroll = FALSE])

\* onScroll: clearTimeout(timer); fadeOutAll().  The listener is
\* registered with once: true.
OnScroll(o) ==
    FadeOutAll([o EXCEPT !.onScroll = FALSE,
                         !.timer = IF @ = "pending" THEN "cleared" ELSE @])

\* 100 ms pass.
IntroTick ==
    /\ introOverlay.now < 1000 * MaxSeconds
    /\ introOverlay' = [introOverlay EXCEPT !.now = @ + 100]
    /\ UNCHANGED <<preloadVars, mapperVars, deviceVars, navBubble, projectModal>>

\* setTimeout(fadeOutText, AUTO_DISMISS_MS) fires, on time or late.
IntroTimerFires ==
    /\ introOverlay.timer = "pending"
    /\ introOverlay.now >= AUTO_DISMISS_MS
    /\ introOverlay' = FadeOutText([introOverlay EXCEPT !.timer = "fired"])
    /\ UNCHANGED <<preloadVars, mapperVars, deviceVars, navBubble, projectModal>>

\* A scroll event of the window: the listener runs if it is still
\* registered.
IntroScroll ==
    /\ introOverlay.scrollEvents < MaxScrollEvents
    /\ LET o == [introOverlay EXCEPT !.scrollEvents = @ + 1]
       IN  introOverlay' = IF o.onScroll THEN OnScroll(o) ELSE o
    /\ UNCHANGED <<preloadVars, mapperVars, deviceVars, navBubble, projectModal>>

\* The tween of the text area ends.
IntroTextFaded ==
    /\ introOverlay.textTween = "running"
    /\ introOverlay.now >= introOverlay.textStart + TEXT_FADE_DUR
    /\ introOverlay' = [introOverlay EXCEPT !.textTween = "done"]
    /\ UNCHANGED <<preloadVars, mapperVars, deviceVars, navBubble, projectModal>>

\* The tween of the overlay ends: onComplete: () => setGone(true).  gsap
\* renders every tween from one ticker, so the tween of the text, which
\* started earlier and is shorter, ends in the same tick at the latest.
IntroOverlayFaded ==
    /\ introOverlay.overlayTween = "running"
    /\ introOverlay.now >= introOverlay.overlayStart + OVERLAY_FADE_DUR
    /\ introOverlay' =
           [introOverlay EXCEPT !.overlayTween = "done",
                                !.textTween = IF @ = "running" THEN "done" ELSE @,
                                !.gone = TRUE]
    /\ UNCHANGED <<preloadVars, mapperVars, deviceVars, navBubble, projectModal>>

NextIntro ==
    \/ IntroTick
    \/ IntroTimerFires
    \/ IntroScroll
    \/ IntroTextFaded
    \/ IntroOverlayFaded

SpecIntro == Init /\ [][NextIntro]_vars

\* C24: the overlay fades and goes only after a scroll event; the timer
\* starts the fade of the text only, at most once and not before
\* AUTO_DISMISS_MS; once a scroll event happened the timer is no longer
\* pending and exactly one fade of the overlay was started; once the
\* overlay is gone nothing but the clock and the count of scroll events
\* changes.
C24_TimerFadesTextScrollDismisses ==
    /\ [](LET o == introOverlay
          IN  /\ (o.overlayTween # "none" \/ o.gone \/ o.overlayGoneRef)
                     => o.scrollEvents >= 1
              /\ o.textFades <= 1
              /\ o.textFades = 1 =>
                     o.timer = "fired" /\ o.textStart >= 4200
              /\ o.scrollEvents >= 1 =>
                     o.timer # "pending" /\ o.overlayFades = 1
              /\ o.gone => o.overlayTween = "done")
    /\ [][introOverlay.timer = "pending" /\ introOverlay'.timer = "fired" =>
             /\ introOverlay'.overlayTween = introOverlay.overlayTween
             /\ introOverlay'.overlayGoneRef = introOverlay.overlayGoneRef
             /\ introOverlay'.gone = introOverlay.gone]_vars
    /\ [][introOverlay.gone =>
             introOverlay' = [introOverlay EXCEPT
                                 !.now = introOverlay'.now,
                                 !.scrollEvents = introOverlay'.scrollEvents]]_vars

\* The text faded on the timer, a later scroll dismissed the overlay, and a
\* second scroll event arrived after the overlay was gone.
C24_Witness ==
    /\ introOverlay.gone
    /\ introOverlay.textTween = "done"
    /\ introOverlay.timer = "fired"
    /\ introOverlay.scrollEvents = 2

(***************************************************************************)
(* NavBubble: the menu opens and closes with a gsap timeline; a click on   *)
(* a child bubble closes the menu and scrolls to a section.                *)
(***************************************************************************)
MaxNavTimers == 2   \* scroll timers of handleNavClick pending at a time

\* NAV_ITEMS[i].sectionId
NavSections == {"home", "servizi", "chi-siamo", "portfolio", "contatti"}

\* The sections of the page that document.getElementById finds.
PageSections == {"servizi", "chi-siamo", "portfolio"}

\* openMenu
OpenMenu(n) ==
    IF n.animating \/ n.isOpen THEN n
    ELSE [n EXCEPT !.animating = TRUE,
                   !.isOpen = TRUE,
                   !.timelines = Append(@, "open")]

\* Variant of closeMenu without the animating check.
CloseMenuUnlocked(n) ==
    IF ~n.isOpen THEN n
    ELSE [n EXCEPT !.animating = TRUE,
                   !.timelines = Append(@, "close")]

\* closeMenu
CloseMenu(n) ==
    IF n.animating \/ ~n.isOpen THEN n
    ELSE [n EXCEPT !.animating = TRUE,
                   !.timelines = Append(@, "close")]

\* handleNavClick(sectionId): closeMenu(); setTimeout(scroll, 700)
HandleNavClick(n, sectionId) ==
    [CloseMenu(n) EXCEPT !.timers = Append(@, sectionId)]

\* The timer's callback: scrollTo the top for home, scrollIntoView of the
\* section's element if it exists.
ScrollToSection(n, sectionId) ==
    IF sectionId = "home" \/ sectionId \in PageSections
    THEN [n EXCEPT !.scrolledTo = sectionId]
    ELSE n

\* Click on the main bubble: onClick={isOpen ? closeMenu : openMenu}
NavMainClick ==
    /\ navBubble' =
           [(IF navBubble.isOpen THEN CloseMenu(navBubble)
                                 ELSE OpenMenu(navBubble))
               EXCEPT !.clicked = "none"]
    /\ UNCHANGED <<preloadVars, mapperVars, deviceVars, introOverlay, projectModal>>

\* Click on the backdrop, which takes pointer events while isOpen.
NavBackdropClick ==
    /\ navBubble.isOpen
    /\ navBubble' = [CloseMenu(navBubble) EXCEPT !.clicked = "none"]
    /\ UNCHANGED <<preloadVars, mapperVars, deviceVars, introOverlay, projectModal>>

\* Click on a child bubble, which takes pointer events while isOpen.
NavChildClick ==
    /\ navBubble.isOpen
    /\ Len(navBubble.timers) < MaxNavTimers
    /\ \E sectionId \in NavSections :
           navBubble' = [HandleNavClick(navBubble, sectionId)
                            EXCEPT !.clicked = sectionId]
    /\ UNCHANGED <<preloadVars, mapperVars, deviceVars, introOverlay, projectModal>>

\* The oldest running timeline completes: its onComplete runs.
NavTimelineCompletes ==
    /\ navBubble.timelines # <<>>
    /\ navBubble' =
           [navBubble EXCEPT
               !.timelines = Tail(@),
               !.animating = FALSE,
               !.isOpen = IF Head(navBubble.timelines) = "close" THEN FALSE ELSE @,
               !.clicked = "none"]
    /\ UNCHANGED <<preloadVars, mapperVars, deviceVars, introOverlay, projectModal>>

\* The oldest scroll timer fires (all have the same delay).
NavTimerFires ==
    /\ navBubble.timers # <<>>
    /\ navBubble' =
           [ScrollToSection(navBubble, Head(navBubble.timers))
               EXCEPT !.timers = Tail(@), !.clicked = "none"]
    /\ UNCHANGED <<preloadVars, mapperVars, deviceVars, introOverlay, projectModal>>

NextNav ==
    \/ NavMainClick
    \/ NavBackdropClick
    \/ NavChildClick
    \/ NavTimelineCompletes
    \/ NavTimerFires

SpecNav == Init /\ [][NextNav]_vars

\* gsap's ticker runs every timeline to its end and the host fires every
\* timer; the user is free to click or not.
SpecNavFair ==
    /\ Init
    /\ [][NextNav]_vars
    /\ WF_vars(NavTimelineCompletes)
    /\ WF_vars(NavTimerFires)

\* C28: at most one timeline runs, and one runs exactly while animating is
\* true; a step taken while animating that leaves animating true changes
\* neither the timelines nor isOpen; a step that ends a timeline releases
\* the lock; isOpen becomes true only in a step that starts an open
\* timeline and false only in a step that ends a close timeline.
C28_OneTimelineAtATime ==
    /\ [](/\ Len(navBubble.timelines) <= 1
          /\ navBubble.animating <=> Len(navBubble.timelines) = 1)
    /\ [][/\ (navBubble.animating /\ navBubble'.animating) =>
                 /\ navBubble'.timelines = navBubble.timelines
                 /\ navBubble'.isOpen = navBubble.isOpen
          /\ Len(navBubble'.timelines) < Len(navBubble.timelines) =>
                 ~navBubble'.animating
          /\ (~navBubble.isOpen /\ navBubble'.isOpen) =>
                 /\ navBubble.timelines = <<>>
                 /\ navBubble'.timelines = <<"open">>
          /\ (navBubble.isOpen /\ ~navBubble'.isOpen) =>
                 /\ navBubble.timelines = <<"close">>
                 /\ navBubble'.timelines = <<>>]_vars

\* A child bubble was clicked while the open timeline was running: the
\* timeline is still the only one and the menu is still open.
C28_Witness ==
    /\ navBubble.clicked # "none"
    /\ navBubble.timelines = <<"open">>
    /\ navBubble.animating
    /\ navBubble.isOpen

\* C29: a click on the child bubble of a section leads to a state in which
\* the menu is closed and to a state in which the page has scrolled to
\* that section.
C29_ChildClickClosesAndScrolls ==
    \A sectionId \in NavSections :
        /\ (navBubble.clicked = sectionId) ~> ~navBubble.isOpen
        /\ (navBubble.clicked = sectionId) ~> (navBubble.scrolledTo = sectionId)

(***************************************************************************)
(* ProjectModal: the body's scroll lock.                                   *)
(***************************************************************************)
MaxCloseTweens == 2   \* close tweens of handleClose running at a time

\* PROJECTS[i].id of Portfolio
Projects == {"p1", "p2", "p3", "p4", "p5", "p6"}

\* The clean-up the previous run of the effect returned, if it returned one.
RunCleanup(pm) ==
    IF pm.cleanup THEN [pm EXCEPT !.overflow = "", !.cleanup = FALSE] ELSE pm

\* Variant of the effect that returns no clean-up.
ModalEffectNoCleanup(pm) ==
    IF pm.project = "null" THEN pm
    ELSE [pm EXCEPT !.overflow = "hidden", !.entry = "running"]

\* The effect's body after a render with pm.project.  When the project is
\* null the component rendered null, both refs are null and the effect
\* returns at its first line, before the else branch and without a clean-up.
ModalEffect(pm) ==
    IF pm.project = "null" THEN pm
    ELSE [pm EXCEPT !.overflow = "hidden",
                    !.cleanup = TRUE,
                    !.entry = "running"]

\* A render with a new project prop: the effect depends on [isVisible].
ModalRender(pm, project) ==
    IF (project # "null") = (pm.project # "null")
    THEN [pm EXCEPT !.project = project]
    ELSE ModalEffect(RunCleanup([pm EXCEPT !.project = project]))

\* Click on a project card of Portfolio: setActiveProject(project).
ModalOpens ==
    /\ projectModal.mounted
    /\ projectModal.project = "null"
    /\ \E project \in Projects :
           projectModal' = ModalRender(projectModal, project)
    /\ UNCHANGED <<preloadVars, mapperVars, deviceVars, introOverlay, navBubble>>

\* The entry tweens end.
ModalEntered ==
    /\ projectModal.entry = "running"
    /\ projectModal' = [projectModal EXCEPT !.entry = "done"]
    /\ UNCHANGED <<preloadVars, mapperVars, deviceVars, introOverlay, navBubble>>

\* handleClose: click on the backdrop or on the close button.
ModalCloseClick ==
    /\ projectModal.mounted
    /\ projectModal.project # "null"
    /\ Len(projectModal.tweens) < MaxCloseTweens
    /\ projectModal' =
           [projectModal EXCEPT !.tweens = Append(@, projectModal.project)]
    /\ UNCHANGED <<preloadVars, mapperVars, deviceVars, introOverlay, navBubble>>

\* The oldest close tween ends: onComplete: onClose, that is
\* setActiveProject(null), which does nothing once Portfolio is unmounted.
ModalCloseCompletes ==
    /\ projectModal.tweens # <<>>
    /\ LET pm == [projectModal EXCEPT !.tweens = Tail(@)]
       IN  projectModal' = IF pm.mounted THEN ModalRender(pm, "null") ELSE pm
    /\ UNCHANGED <<preloadVars, mapperVars, deviceVars, introOverlay, navBubble>>

\* Portfolio unmounts: the clean-up of the effect runs.
ModalUnmounts ==
    /\ projectModal.mounted
    /\ projectModal' =
           [RunCleanup(projectModal) EXCEPT !.mounted = FALSE,
                                            !.project = "null"]
    /\ UNCHANGED <<preloadVars, mapperVars, deviceVars, introOverlay, navBubble>>

\* Portfolio mounts again, with fresh state.
ModalMounts ==
    /\ ~projectModal.mounted
    /\ projectModal' =
           [ProjectModalMounted EXCEPT !.tweens = projectModal.tweens]
    /\ UNCHANGED <<preloadVars, mapperVars, deviceVars, introOverlay, navBubble>>

NextModal ==
    \/ ModalOpens
    \/ ModalEntered
    \/ ModalCloseClick
    \/ ModalCloseCompletes
    \/ ModalUnmounts
    \/ ModalMounts

SpecModal == Init /\ [][NextModal]_vars

\* C30: the body's overflow is hidden exactly while the modal is mounted
\* with a project; otherwise it is the empty string.
C30_ScrollLockedWhileVisible ==
    /\ projectModal.overflow \in {"", "hidden"}
    /\ projectModal.overflow = "hidden" <=>
           (projectModal.mounted /\ projectModal.project # "null")

\* A modal that was opened and closed again while mounted.
C30_Witness ==
    /\ projectModal.mounted
    /\ projectModal.project = "null"
    /\ projectModal.entry # "none"
    /\ projectModal.overflow = ""

====
